---- MODULE Spec2Model ----
(***************************************************************************)
(* A model of the Gaussian-process trainer and predictor                   *)
(* (src/src/gaussian_process.rs) and of the mixture-of-experts parameter   *)
(* builder (src/moe/src/parameters.rs).                                    *)
(*                                                                         *)
(* Floating point values are modelled exactly where the code compares      *)
(* them: a theta is a rational [num, den] (a power of ten), the value in   *)
(* log10 space handed to the optimizer is an integer, singular values are  *)
(* powers of ten given by their exponent, variances are integers.  The     *)
(* results of the linear algebra library (Cholesky, triangular solves, QR, *)
(* SVD) and the points chosen by the COBYLA optimizer are outside the      *)
(* repository: they are inputs, drawn from small sets.                     *)
(***************************************************************************)
EXTENDS Integers, Sequences, FiniteSets, TLC

\* ---------------------------------------------------------------- bounds
\* largest number of input columns of a training or query matrix
MaxDim == 2
\* largest number of training rows
MaxObs == 2
\* largest number of output columns
MaxOut == 2
\* largest number of query rows
MaxQuery == 2
\* largest n_clusters and kpls_dim a client passes, and the longest chain of
\* setter calls on one builder
MaxClusters == 2
MaxKpls == 1
MaxCalls == 2
\* largest number of training points of a correlation matrix assembled
MaxPoints == 3
\* largest number of objective evaluations of one optimizer run that is
\* explored (the program's own budget is 10 * n_features)
MaxSteps == 2

\* ------------------------------------------------------- program constants
\* bound constraints on log10(theta): -x - 6 <= 0 and x - 2 <= 0
LogLow == 6
LogUp == 2
\* nlopt tolerance 1e-2 of each inequality constraint, as 1 / TolInv
TolInv == 100
\* set_maxeval(10 * n_features)
MaxEvalFactor == 10
\* cond_ft_qr_r < 1e-10 and cond_f_mx > 1e15, as exponents of ten
CondRExp == 10
CondFExp == 15
\* nugget = 10.0 * f64::EPSILON, in units of f64::EPSILON
NuggetFactor == 10
\* f64::INFINITY, larger than every finite objective value of the model
INFINITY == 1000000

\* ------------------------------------------------------------- VARIABLES
VARIABLES
    pc,         \* position of the client: "params", "cstr", "optim", "optdone",
                \* "trained", "failed" (fit returned Err), "panicked"
    hp,         \* GpHyperParams: [theta, mean]
    env,        \* the locals of fit: shapes of xtrain, ytrain, x_distances, fx, theta0
    index,      \* the local `index` of fit
    cstr,       \* the inequality constraints registered with the optimizer
    theta_vec,  \* the vector the optimizer works on (log10 space)
    nEval,      \* objective evaluations done by the optimizer
    res,        \* what optimizer.optimize returned: "none", "Ok", "Err"
    lastRL,     \* the last call of reduced_likelihood: [from, theta, lib, out]
    gp,         \* the GaussianProcess fit returned (when pc = "trained")
    pred,       \* the last prediction call: [op, m, nc, out]
    params,     \* the GpMixtureParams builder (the GpMixtureValidParams it wraps)
    lastOp,     \* the last builder call: [op, arg, self, result], self being
                \* the builder the call consumed
    checked,    \* the result of the last check: [tag, value, kind]
    nCalls,     \* setter calls made on the builder
    asm_distances, \* the DistanceMatrix x_distances of one assembly: [n_obs, d_indices]
    asm_r,      \* the kernel column r of that assembly, one value per distance row
    r_mx,       \* the correlation matrix being assembled (rows and columns from 0)
    row,        \* the loop position: None before line 257, then Some(k) once
                \* k distance rows are written
    writers     \* for each entry of r_mx, the distance rows written into it

gpVars == <<pc, hp, env, index, cstr, theta_vec, nEval, res, lastRL, gp, pred>>
moeVars == <<params, lastOp, checked, nCalls>>
corrVars == <<asm_distances, asm_r, r_mx, row, writers>>
vars == <<pc, hp, env, index, cstr, theta_vec, nEval, res, lastRL, gp, pred,
          params, lastOp, checked, nCalls, asm_distances, asm_r, r_mx, row, writers>>

\* ------------------------------------------------------------ arithmetic
\* An Option is a sequence: <<>> is None, <<v>> is Some(v).
None == <<>>
Some(v) == <<v>>

Min(a, b) == IF a < b THEN a ELSE b

RECURSIVE Exp10(_)
Exp10(n) == IF n = 0 THEN 1 ELSE 10 * Exp10(n - 1)

\* base.powf(v) with base = 10, exactly, as a rational
powf(v) == IF v >= 0 THEN [num |-> Exp10(v), den |-> 1]
                     ELSE [num |-> 1, den |-> Exp10(-v)]

\* the values in log10 space the model works with
LogGrid == {-7, -2, 3}

\* f64::log10 of a power of ten
log10(q) == CHOOSE e \in -9..9 : powf(e) = q

\* comparison of rationals: a <= b
RatLeq(a, b) == a.num * b.den <= b.num * a.den

\* Array1::from_elem(n, v)
from_elem(n, v) == [i \in 1..n |-> v]

\* mapv over a vector
MapPowf(x) == [i \in 1..Len(x) |-> powf(x[i])]
MapLog10(t) == [i \in 1..Len(t) |-> log10(t[i])]

\* ------------------------------------------------------ regression bases
Means == {"constant", "linear", "quadratic"}

\* number of columns of the basis matrix of a mean model over d inputs
BasisSize(mean, d) ==
    CASE mean = "constant" -> 1
      [] mean = "linear" -> d + 1
      [] mean = "quadratic" -> ((d + 1) * (d + 2)) \div 2

\* a matrix is known by its shape, and a basis matrix by its mean model
Shape(r, c) == [rows |-> r, cols |-> c]
Transpose(a) == [a EXCEPT !.rows = a.cols, !.cols = a.rows]

\* Mean::eval(x): one row per row of x, one column per basis function
MeanEval(mean, x) == [rows |-> x.rows, cols |-> BasisSize(mean, x.cols), basis |-> mean]

\* utils::constant(x): the basis of the constant mean
constant(x) == MeanEval("constant", x)

\* ------------------------------------------- results of the linear algebra
\* One record tells how each library call of one reduced_likelihood
\* evaluation ends: TRUE for Ok, FALSE for Err; svMin and sfMin are the
\* exponents of ten of the smallest singular value of R_f and of F (the
\* largest is 10^0); sigma2 is colSumSq(rho)/n, det_r the determinant term.
Sigma2Raw == {0, 1}

LibBase(s) == [chol |-> TRUE, solveFt |-> TRUE, qr |-> TRUE, svdR |-> TRUE,
               svMin |-> 0, svdF |-> TRUE, sfMin |-> 0, solveYt |-> TRUE,
               solveBeta |-> TRUE, solveGamma |-> TRUE, sigma2 |-> s, det_r |-> 1]

LibFailures == { [LibBase(1) EXCEPT !.chol = FALSE],
                 [LibBase(1) EXCEPT !.solveFt = FALSE],
                 [LibBase(1) EXCEPT !.qr = FALSE],
                 [LibBase(1) EXCEPT !.svdR = FALSE],
                 [LibBase(1) EXCEPT !.solveYt = FALSE],
                 [LibBase(1) EXCEPT !.solveBeta = FALSE],
                 [LibBase(1) EXCEPT !.solveGamma = FALSE] }

LibConditioned == { [LibBase(1) EXCEPT !.svMin = -CondRExp] } \cup
                  { [LibBase(1) EXCEPT !.svMin = -(CondRExp + 1), !.sfMin = b, !.svdF = c] :
                    b \in {-(CondFExp + 1), -CondFExp}, c \in BOOLEAN }

LibOutcomes == { LibBase(s) : s \in Sigma2Raw } \cup LibFailures \cup LibConditioned

\* the singular values the SVD of a matrix with `len` of them returns, largest
\* first, as exponents of ten
SingularValues(len, minExp) == [i \in 1..len |-> IF i = len THEN minExp ELSE 0]

\* ------------------------------------------------------ reduced_likelihood
NoInner == [sigma2 |-> <<>>, beta |-> Shape(0, 0), gamma |-> Shape(0, 0),
            r_chol |-> Shape(0, 0), ft |-> Shape(0, 0), ft_qr_r |-> Shape(0, 0),
            theta |-> <<>>, fx |-> MeanEval("constant", Shape(0, 0)),
            y |-> [rows |-> 0, cols |-> 0, std |-> 0]]

RlOk(value, inner) == [tag |-> "Ok", value |-> value, inner |-> inner,
                       kind |-> "", msg |-> ""]
RlErr(kind, msg) == [tag |-> "Err", value |-> 0, inner |-> NoInner,
                     kind |-> kind, msg |-> msg]
RlPanic == [tag |-> "Panic", value |-> 0, inner |-> NoInner, kind |-> "", msg |-> ""]

MsgIncompatible == "F is too ill conditioned. Poor combination of regression model and observations."
MsgIllConditioned == "ft is too ill conditioned, try another theta again"

\* the error kind of the two ill-conditioning returns
IllConditionedKind(incompatible) == "LikelihoodComputationError"

\* cond_ft_qr_r < 1e-10, with cond_ft_qr_r = sv_g[len - 1] / sv_g[0]
RIllConditioned(sv_g) == sv_g[Len(sv_g)] - sv_g[1] < -CondRExp

\* cond_f_mx > 1e15, with cond_f_mx = sv_f[0] / sv_f[len - 1]
FIllConditioned(sv_f) == sv_f[1] - sv_f[Len(sv_f)] > CondFExp

\* the part of reduced_likelihood after the conditioning test (lines 288-314)
LikelihoodTail(theta, fx, x_distances, ytrain, lib) ==
    IF ~lib.solveYt \/ ~lib.solveBeta \/ ~lib.solveGamma
    THEN RlErr("LinalgError", "")
    ELSE LET n == x_distances.n_obs
             p == fx.cols
             k == ytrain.cols
             sigma2 == [j \in 1..k |-> lib.sigma2]
             sum == k * lib.sigma2
         IN  RlOk(-sum * lib.det_r,
                  [sigma2 |-> [j \in 1..k |-> sigma2[j] * ytrain.std * ytrain.std],
                   beta |-> Shape(p, k), gamma |-> Shape(n, k),
                   r_chol |-> Shape(n, n), ft |-> Shape(n, p),
                   ft_qr_r |-> Shape(Min(n, p), p),
                   theta |-> theta, fx |-> fx, y |-> ytrain])

reduced_likelihood(theta, fx, x_distances, ytrain, lib) ==
    IF ~lib.chol THEN RlErr("LinalgError", "")
    ELSE IF ~lib.solveFt \/ ~lib.qr \/ ~lib.svdR THEN RlPanic
    ELSE LET sv_g == SingularValues(Min(fx.rows, fx.cols), lib.svMin)
         IN  IF RIllConditioned(sv_g)
             THEN IF ~lib.svdF THEN RlPanic
                  ELSE LET sv_f == SingularValues(Min(fx.rows, fx.cols), lib.sfMin)
                       IN  IF FIllConditioned(sv_f)
                           THEN RlErr(IllConditionedKind(TRUE), MsgIncompatible)
                           ELSE RlErr(IllConditionedKind(FALSE), MsgIllConditioned)
             ELSE LikelihoodTail(theta, fx, x_distances, ytrain, lib)

\* the objective closure of fit: what it hands back to the optimizer
objfn(out) == IF out.tag = "Ok" THEN -out.value ELSE INFINITY

\* ------------------------------------------------------------ GP trainer
NoEnv == [xtrain |-> Shape(0, 0), ytrain |-> [rows |-> 0, cols |-> 0, std |-> 0],
          theta0 |-> <<>>, x_distances |-> [n_obs |-> 0, n_features |-> 0],
          fx |-> MeanEval("constant", Shape(0, 0)), byRef |-> TRUE]

NoCall == [from |-> "none", lib |-> LibBase(0), out |-> RlPanic, ret |-> None]

NoGp == [theta |-> <<>>, mean |-> "constant", inner_params |-> NoInner,
         xtrain |-> Shape(0, 0), ytrain |-> [rows |-> 0, cols |-> 0, std |-> 0]]

NoPred == [op |-> "none", x |-> Shape(0, 0), tag |-> "none", shape |-> Shape(0, 0),
           value |-> <<>>, mse |-> <<>>, fx |-> MeanEval("constant", Shape(0, 0)),
           lhs |-> Shape(0, 0)]

NoHyperParams == [theta |-> powf(0), mean |-> "constant"]

\* the theta values a client passes to with_initial_theta
ThetaInits == { powf(e) : e \in LogGrid }

\* the standard deviations of the training outputs
YStds == {1, 2}

\* GpHyperParams::new(mean)
HyperParamsNew(mean) == [theta |-> powf(-2), mean |-> mean]

with_initial_theta(theta) ==
    /\ pc = "params"
    /\ hp' = [hp EXCEPT !.theta = theta]
    /\ UNCHANGED <<pc, env, index, cstr, theta_vec, nEval, res, lastRL, gp, pred>>
    /\ UNCHANGED moeVars
    /\ UNCHANGED corrVars

with_mean(mean) ==
    /\ pc = "params"
    /\ hp' = [hp EXCEPT !.mean = mean]
    /\ UNCHANGED <<pc, env, index, cstr, theta_vec, nEval, res, lastRL, gp, pred>>
    /\ UNCHANGED moeVars
    /\ UNCHANGED corrVars

\* the locals fit computes before it builds the optimizer (lines 72-79), for
\* training inputs of shape (n, d) and outputs of shape (n, k); byRef is how
\* this build's constraint closures read `index` (see ReadIndex)
FitEnv(h, n, d, k, ystd, byRef) ==
    [xtrain |-> Shape(n, d),
     ytrain |-> [rows |-> n, cols |-> k, std |-> ystd],
     theta0 |-> from_elem(d, h.theta),
     x_distances |-> [n_obs |-> n, n_features |-> d],
     fx |-> MeanEval(h.mean, Shape(n, d)),
     byRef |-> byRef]

\* fit, lines 72-101: the locals and the optimizer, no constraint yet
FitBegin(n, d, k, ystd, byRef) ==
    /\ pc = "params"
    /\ env' = FitEnv(hp, n, d, k, ystd, byRef)
    /\ cstr' = <<>>
    /\ pc' = "cstr"
    /\ UNCHANGED <<hp, index, theta_vec, nEval, res, lastRL, gp, pred>>
    /\ UNCHANGED moeVars
    /\ UNCHANGED corrVars

\* one closure registered by add_inequality_constraint: `kind` says which
\* bound, `captured` is the value of `index` when the closure was built
Constraint(kind, i) == [kind |-> kind, captured |-> i]

\* fit, lines 103-120: one turn of the loop over the components of theta0
AddConstraints ==
    /\ pc = "cstr"
    /\ Len(cstr) < 2 * Len(env.theta0)
    /\ LET i == Len(cstr) \div 2
       IN  /\ index' = i
           /\ cstr' = cstr \o <<Constraint("low", i), Constraint("up", i)>>
    /\ UNCHANGED <<pc, hp, env, theta_vec, nEval, res, lastRL, gp, pred>>
    /\ UNCHANGED moeVars
    /\ UNCHANGED corrVars

\* fit, lines 121-125: the loop is over, the starting point is log10(theta0)
StartOptimize ==
    /\ pc = "cstr"
    /\ Len(cstr) = 2 * Len(env.theta0)
    /\ theta_vec' = MapLog10(env.theta0)
    /\ nEval' = 0
    /\ pc' = "optim"
    /\ UNCHANGED <<hp, env, index, cstr, res, lastRL, gp, pred>>
    /\ UNCHANGED moeVars
    /\ UNCHANGED corrVars

\* The component a constraint closure reads when the optimizer calls it.  The
\* closures are not `move` closures: they hold a shared reference to the local
\* `index` (line 104), and the loop writes `index` again while the optimizer
\* still holds them.  Reading through such a reference is undefined
\* behaviour; a build either loads the variable (byRef: every closure reads
\* the last value stored, d - 1) or uses the value it saw when the closure
\* was built.
ReadIndex(c) == IF env.byRef THEN index ELSE c.captured

\* cstr_low(x) = -x[index] - 6 and cstr_up(x) = x[index] - 2
ConstraintValue(c, x) ==
    IF c.kind = "low" THEN -x[ReadIndex(c) + 1] - LogLow
                      ELSE x[ReadIndex(c) + 1] - LogUp

\* nlopt holds an inequality constraint satisfied when its value <= tolerance
Feasible(x) ==
    \A j \in 1..Len(cstr) : ConstraintValue(cstr[j], x) * TolInv <= 1

\* the budget of objective evaluations: set_maxeval(10 * n_features)
MaxEval == MaxEvalFactor * env.x_distances.n_features

\* One objective evaluation by the optimizer (lines 80-94): COBYLA picks x
\* (the starting point first), the closure evaluates reduced_likelihood at
\* 10^x and keeps the value only; the optimizer may take x as its current
\* best when x is feasible for the registered constraints and the objective
\* is finite.
ObjEval(x, lib, keep) ==
    /\ pc = "optim"
    /\ nEval < Min(MaxEval, MaxSteps)
    /\ nEval = 0 => x = theta_vec
    /\ LET theta == MapPowf(x)
           out == reduced_likelihood(theta, env.fx, env.x_distances, env.ytrain, lib)
           seen == [out EXCEPT !.inner = NoInner]
       IN  IF out.tag = "Panic"
           THEN /\ pc' = "panicked"
                /\ lastRL' = [from |-> "objfn", lib |-> lib, out |-> seen, ret |-> None]
                /\ UNCHANGED <<theta_vec, nEval>>
           ELSE /\ lastRL' = [from |-> "objfn", lib |-> lib, out |-> seen,
                              ret |-> Some(objfn(out))]
                /\ nEval' = nEval + 1
                /\ theta_vec' = IF keep /\ Feasible(x) /\ objfn(out) < INFINITY
                                THEN x ELSE theta_vec
                /\ pc' = pc
    /\ UNCHANGED <<hp, env, index, cstr, res, gp, pred>>
    /\ UNCHANGED moeVars
    /\ UNCHANGED corrVars

\* fit, lines 126-129: optimize returns; an error is printed and dropped
OptimizeReturn(r) ==
    /\ pc = "optim"
    /\ r = "Ok" => nEval >= 1
    /\ res' = r
    /\ pc' = "optdone"
    /\ UNCHANGED <<hp, env, index, cstr, theta_vec, nEval, lastRL, gp, pred>>
    /\ UNCHANGED moeVars
    /\ UNCHANGED corrVars

\* the theta fit stores in the GaussianProcess (line 133)
StoredTheta(opt_theta, theta0) == opt_theta

\* the GaussianProcess fit builds from the final evaluation (lines 132-138)
MakeGp(h, e, opt_theta, inner_params) ==
    [theta |-> StoredTheta(opt_theta, e.theta0), mean |-> h.mean,
     inner_params |-> inner_params, xtrain |-> e.xtrain, ytrain |-> e.ytrain]

\* fit, lines 130-139: the final evaluation at the optimizer's theta
FitFinish(lib) ==
    /\ pc = "optdone"
    /\ LET opt_theta == MapPowf(theta_vec)
           out == reduced_likelihood(opt_theta, env.fx, env.x_distances, env.ytrain, lib)
       IN  /\ lastRL' = [from |-> "final", lib |-> lib, out |-> out, ret |-> None]
           /\ CASE out.tag = "Ok" -> /\ gp' = MakeGp(hp, env, opt_theta, out.inner)
                                     /\ pc' = "trained"
                [] out.tag = "Err" -> /\ gp' = gp
                                      /\ pc' = "failed"
                [] out.tag = "Panic" -> /\ gp' = gp
                                        /\ pc' = "panicked"
    /\ UNCHANGED <<hp, env, index, cstr, theta_vec, nEval, res, pred>>
    /\ UNCHANGED moeVars
    /\ UNCHANGED corrVars

\* ---------------------------------------------------------- GP predictor
\* Whether the right operand of an elementwise operation broadcasts to the
\* shape of the left one
BroadcastsTo(b, a) == (b.rows = a.rows \/ b.rows = 1) /\ (b.cols = a.cols \/ b.cols = 1)

\* _compute_correlation: the (n_obs, nt) correlations of the query rows with
\* the training rows.  The code tests no dimension: with a query of another
\* width the elementwise operations of lines 233 and 238 panic, unless the
\* array library broadcasts both operands (coBroadcast) and the training
\* inputs have one column.
compute_correlation(g, x, coBroadcast) ==
    IF x.cols = g.xtrain.cols \/ (g.xtrain.cols = 1 /\ coBroadcast)
    THEN [tag |-> "Ok", shape |-> Shape(x.rows, g.xtrain.rows)]
    ELSE [tag |-> "Panic", shape |-> Shape(0, 0)]

PredPanic(op, x) == [NoPred EXCEPT !.op = op, !.x = x, !.tag = "Panic"]

\* predict_values, lines 188-196
predict_values(g, x, coBroadcast) ==
    LET corr == compute_correlation(g, x, coBroadcast)
        f == MeanEval(g.mean, x)
    IN  IF corr.tag = "Panic" THEN PredPanic("predict_values", x)
        ELSE IF f.cols # g.inner_params.beta.rows
                \/ corr.shape.cols # g.inner_params.gamma.rows
             THEN PredPanic("predict_values", x)
        ELSE [NoPred EXCEPT !.op = "predict_values", !.x = x, !.tag = "Ok",
                            !.shape = Shape(x.rows, g.inner_params.beta.cols),
                            !.fx = f]

\* what the array library does in one predict_variances call: whether each
\* triangular solve succeeds, the entries of rt and of u, and whether it
\* broadcasts both operands
RtVals == {0, 1}
UVals == {0, 1}
PredLibOk(c, e, bc) == [solveRt |-> TRUE, solveU |-> TRUE, coBroadcast |-> bc,
                        rt |-> c, u |-> e]
PredLibs == { PredLibOk(c, e, bc) : c \in RtVals, e \in UVals, bc \in BOOLEAN } \cup
            { [PredLibOk(0, 0, FALSE) EXCEPT !.solveRt = FALSE],
              [PredLibOk(0, 0, FALSE) EXCEPT !.solveU = FALSE] }

\* v * v summed over the rows of column j (mapv(|v| v * v).sum_axis(Axis(0)))
RECURSIVE SumSqCol(_, _, _)
SumSqCol(mat, rows, j) ==
    IF rows = 0 THEN 0 ELSE mat[rows][j] * mat[rows][j] + SumSqCol(mat, rows - 1, j)

\* mse.mapv(|v| if v < 0. { 0. } else { v })
ClampUnchecked(v) == v
ClampNegative(v) == IF v < 0 THEN 0 ELSE v

\* the basis predict_variances subtracts in lhs (line 210)
VarianceBasis(g, x) == constant(x)

\* predict_variances, lines 198-227
predict_variances(g, x, lib) ==
    LET corr == compute_correlation(g, x, lib.coBroadcast)
        inners == g.inner_params
        corr_t == Transpose(corr.shape)
        m == x.rows
        rt == [i \in 1..corr_t.rows |-> [j \in 1..m |-> lib.rt]]
        fxq == VarianceBasis(g, x)
        lhsLeft == Shape(inners.ft.cols, corr_t.cols)
        u == [i \in 1..lhsLeft.rows |-> [j \in 1..m |-> lib.u]]
        a == inners.sigma2
        b == [j \in 1..m |-> 1 - SumSqCol(rt, corr_t.rows, j)
                               + SumSqCol(u, lhsLeft.rows, j)]
        mse == [j \in 1..m |-> a[1] * b[j]]
    IN  IF corr.tag = "Panic" \/ ~lib.solveRt
        THEN PredPanic("predict_variances", x)
        ELSE IF ~BroadcastsTo(Transpose(fxq), lhsLeft) \/ ~lib.solveU
        THEN [PredPanic("predict_variances", x) EXCEPT !.fx = fxq, !.lhs = lhsLeft]
        ELSE IF Len(a) * m # m
        THEN [PredPanic("predict_variances", x) EXCEPT !.fx = fxq, !.lhs = lhsLeft]
        ELSE [NoPred EXCEPT !.op = "predict_variances", !.x = x, !.tag = "Ok",
                            !.shape = Shape(m, 1), !.fx = fxq, !.lhs = lhsLeft,
                            !.mse = mse,
                            !.value = [j \in 1..m |-> ClampNegative(mse[j])]]

Queries == { Shape(m, nc) : m \in 1..MaxQuery, nc \in 1..MaxDim }

PredictValues(x, coBroadcast) ==
    /\ pc = "trained"
    /\ pred' = predict_values(gp, x, coBroadcast)
    /\ UNCHANGED <<pc, hp, env, index, cstr, theta_vec, nEval, res, lastRL, gp>>
    /\ UNCHANGED moeVars
    /\ UNCHANGED corrVars

PredictVariances(x, lib) ==
    /\ pc = "trained"
    /\ pred' = predict_variances(gp, x, lib)
    /\ UNCHANGED <<pc, hp, env, index, cstr, theta_vec, nEval, res, lastRL, gp>>
    /\ UNCHANGED moeVars
    /\ UNCHANGED corrVars

\* ------------------------------------------- mixture-of-experts builder
GpTypes == {"FullGp", "SparseGp"}
Hard == [tag |-> "Hard", heaviness |-> None]
Smooth(h) == [tag |-> "Smooth", heaviness |-> h]
Recombinations == {Hard, Smooth(None), Smooth(Some(-1)), Smooth(Some(1))}
RegressionSpecs == {{"CONSTANT"}, {"CONSTANT", "LINEAR"}}
CorrelationSpecs == {{"SQUAREDEXPONENTIAL"}, {"MATERN32"}}
Rngs == {"entropy", "seed"}

\* ThetaTuning::Optimized { init, bounds } and ThetaTuning::Fixed(v)
Optimized(init, bounds) == [tag |-> "Optimized", init |-> init, bounds |-> bounds]
Fixed(v) == [tag |-> "Fixed", init |-> v, bounds |-> <<>>]
ThetaVecs == {<<1>>, <<2>>}
ThetaBounds == {<<<<0, 1>>>>, <<<<0, 2>>>>}
\* ThetaTuning::default()
ThetaTuningDefault == Optimized(<<0>>, <<<<0, 9>>>>)
ThetaTunings == {Fixed(<<1>>), Optimized(<<2>>, <<<<0, 2>>>>)}

NClusters == 0..MaxClusters
KplsDims == {None} \cup { Some(d) : d \in 0..MaxKpls }
NStarts == {0, 1, 10}
Gmms == {"gmm"}
\* the (weights, means, covariances) handed to gmx: sound or not
GmxData == {"gmx", "unsound"}

\* Default for GpMixtureValidParams, lines 63-79
GpMixtureValidParamsDefault ==
    [gp_type |-> "FullGp", n_clusters |-> 1, recombination |-> Hard,
     regression_spec |-> {"CONSTANT"}, correlation_spec |-> {"SQUAREDEXPONENTIAL"},
     theta_tuning |-> ThetaTuningDefault, kpls_dim |-> None, n_start |-> 10,
     gmm |-> None, gmx |-> None, rng |-> "entropy"]

\* GpMixtureParams::default, lines 144-148
GpMixtureParamsDefault == GpMixtureValidParamsDefault

\* GpMixtureParams::new_with_rng, lines 162-176
new_with_rng_full(gp_type, rng) ==
    [gp_type |-> "FullGp", n_clusters |-> 1, recombination |-> Smooth(Some(1)),
     regression_spec |-> {"CONSTANT"}, correlation_spec |-> {"SQUAREDEXPONENTIAL"},
     theta_tuning |-> ThetaTuningDefault, kpls_dim |-> None, n_start |-> 10,
     gmm |-> None, gmx |-> None, rng |-> rng]
new_with_rng(gp_type, rng) ==
    [gp_type |-> gp_type, n_clusters |-> 1, recombination |-> Smooth(Some(1)),
     regression_spec |-> {"CONSTANT"}, correlation_spec |-> {"SQUAREDEXPONENTIAL"},
     theta_tuning |-> ThetaTuningDefault, kpls_dim |-> None, n_start |-> 10,
     gmm |-> None, gmx |-> None, rng |-> rng]

\* GpMixtureParams::new, lines 153-155
new == new_with_rng("FullGp", "entropy")

\* From<GpMixtureValidParams> for GpMixtureParams, lines 316-320
from(item) == item

\* the setters, lines 178-275: each takes the builder and returns it
gp_type(self, v) == [self EXCEPT !.gp_type = v]
n_clusters(self, v) == [self EXCEPT !.n_clusters = v]
recombination(self, v) == [self EXCEPT !.recombination = v]
regression_spec(self, v) == [self EXCEPT !.regression_spec = v]
correlation_spec(self, v) == [self EXCEPT !.correlation_spec = v]
kpls_dim(self, v) == [self EXCEPT !.kpls_dim = v]
n_start(self, v) == [self EXCEPT !.n_start = v]
theta_tuning(self, v) == [self EXCEPT !.theta_tuning = v]
\* gmm, were it to drop a preset gmx
gmm_exclusive(self, v) == [self EXCEPT !.gmm = Some(v), !.gmx = None]
gmm(self, v) == [self EXCEPT !.gmm = Some(v)]
gmx(self, v) == [self EXCEPT !.gmx = Some(v)]

\* theta_init, lines 218-227
theta_init(self, v) ==
    [self EXCEPT !.theta_tuning =
        IF self.theta_tuning.tag = "Optimized"
        THEN Optimized(v, self.theta_tuning.bounds)
        ELSE Fixed(v)]

\* theta_bounds, lines 238-247
theta_bounds_always(self, v) ==
    [self EXCEPT !.theta_tuning = Optimized(self.theta_tuning.init, v)]
theta_bounds(self, v) ==
    [self EXCEPT !.theta_tuning =
        IF self.theta_tuning.tag = "Optimized"
        THEN Optimized(self.theta_tuning.init, v)
        ELSE Fixed(self.theta_tuning.init)]

\* with_rng, lines 278-292
with_rng(self, rng) ==
    [gp_type |-> self.gp_type, n_clusters |-> self.n_clusters,
     recombination |-> self.recombination,
     regression_spec |-> self.regression_spec,
     correlation_spec |-> self.correlation_spec,
     theta_tuning |-> self.theta_tuning, kpls_dim |-> None,
     n_start |-> self.n_start, gmm |-> self.gmm, gmx |-> self.gmx, rng |-> rng]

\* ParamGuard::check_ref and check, lines 299-313
NoCheck == [tag |-> "none", value |-> GpMixtureValidParamsDefault, kind |-> ""]
check_ref(self) ==
    IF self.kpls_dim # None /\ self.kpls_dim[1] = 0
    THEN [tag |-> "Err", value |-> GpMixtureValidParamsDefault,
          kind |-> "InvalidValueError"]
    ELSE [tag |-> "Ok", value |-> self, kind |-> ""]
check(self) == check_ref(self)

NoOp == [op |-> "none", arg |-> <<>>, self |-> GpMixtureValidParamsDefault,
         result |-> "Ok"]
Called(op, arg, self) == [op |-> op, arg |-> arg, self |-> self, result |-> "Ok"]

\* a setter call: the builder is consumed and replaced by the one returned
Setter(op, arg, new_params) ==
    /\ lastOp.result = "Ok"
    /\ nCalls < MaxCalls
    /\ params' = new_params
    /\ lastOp' = Called(op, arg, params)
    /\ nCalls' = nCalls + 1
    /\ UNCHANGED checked
    /\ UNCHANGED gpVars
    /\ UNCHANGED corrVars

Call_gp_type(v) == Setter("gp_type", v, gp_type(params, v))
Call_n_clusters(v) == Setter("n_clusters", v, n_clusters(params, v))
Call_recombination(v) == Setter("recombination", v, recombination(params, v))
Call_regression_spec(v) == Setter("regression_spec", v, regression_spec(params, v))
Call_correlation_spec(v) == Setter("correlation_spec", v, correlation_spec(params, v))
Call_theta_init(v) == Setter("theta_init", v, theta_init(params, v))
Call_kpls_dim(v) == Setter("kpls_dim", v, kpls_dim(params, v))
Call_theta_bounds(v) == Setter("theta_bounds", v, theta_bounds(params, v))
Call_theta_tuning(v) == Setter("theta_tuning", v, theta_tuning(params, v))
Call_n_start(v) == Setter("n_start", v, n_start(params, v))
Call_gmm(v) == Setter("gmm", v, gmm(params, v))

\* gmx builds the GaussianMixture with unwrap(): unsound data panic (line 273)
Call_gmx(v) ==
    IF v = "unsound"
    THEN /\ lastOp.result = "Ok"
         /\ nCalls < MaxCalls
         /\ lastOp' = [Called("gmx", v, params) EXCEPT !.result = "Panic"]
         /\ nCalls' = nCalls + 1
         /\ UNCHANGED <<params, checked>>
         /\ UNCHANGED gpVars
         /\ UNCHANGED corrVars
    ELSE Setter("gmx", v, gmx(params, v))

Call_with_rng(rng) ==
    /\ lastOp.result = "Ok"
    /\ params' = with_rng(params, rng)
    /\ lastOp' = Called("with_rng", rng, params)
    /\ UNCHANGED <<checked, nCalls>>
    /\ UNCHANGED gpVars
    /\ UNCHANGED corrVars

Call_check ==
    /\ lastOp.result = "Ok"
    /\ checked' = check(params)
    /\ lastOp' = Called("check", <<>>, params)
    /\ UNCHANGED <<params, nCalls>>
    /\ UNCHANGED gpVars
    /\ UNCHANGED corrVars

\* ------------------------------------- assembly of the correlation matrix
\* A number a/1000 + e * f64::EPSILON
Num(milli, eps) == [milli |-> milli, eps |-> eps]

\* the nugget of reduced_likelihood (line 255)
nugget == Num(0, NuggetFactor)

\* v + v * nugget for an entry v of the identity matrix (0 or 1)
AddNugget(v) == Num(1000 * v + v * nugget.milli, v * nugget.eps)

\* Array2::eye(n).mapv(|v| v + v * nugget) (line 257)
EyeNugget(n) ==
    [a \in 0..(n - 1) |-> [b \in 0..(n - 1) |-> AddNugget(IF a = b THEN 1 ELSE 0)]]

\* the index pairs of a DistanceMatrix over n points: every pair i < j once,
\* row by row of the upper triangle
RECURSIVE PairsFrom(_, _, _)
PairsFrom(i, j, n) ==
    IF i >= n - 1 THEN <<>>
    ELSE IF j >= n THEN PairsFrom(i + 1, i + 2, n)
    ELSE <<(<<i, j>>)>> \o PairsFrom(i, j + 1, n)

DistanceMatrixNew(n) == [n_obs |-> n, d_indices |-> PairsFrom(0, 1, n)]

\* the values squared_exponential returns for one distance row: exp(-s) for
\* s >= 0, between 0 (underflow) and 1
KernelValues == { Num(0, 0), Num(368, 0), Num(1000, 0) }

\* one turn of the loop of lines 258-261, with the upper entry only
WritePairUpper(m, ij, v) ==
    [m EXCEPT ![ij[1]][ij[2]] = v]

\* one turn of the loop of lines 258-261: r_mx[[ij[0], ij[1]]] = v and
\* r_mx[[ij[1], ij[0]]] = v
WritePair(m, ij, v) ==
    [m EXCEPT ![ij[1]][ij[2]] = v, ![ij[2]][ij[1]] = v]

\* the entries one turn of the loop assigns
WrittenBy(ij) == { <<ij[1], ij[2]>>, <<ij[2], ij[1]>> }

NoMatrix == [a \in {} |-> 0]

\* line 257: the matrix before the loop
AssembleBegin ==
    /\ row = None
    /\ r_mx' = EyeNugget(asm_distances.n_obs)
    /\ writers' = [a \in 0..(asm_distances.n_obs - 1) |->
                     [b \in 0..(asm_distances.n_obs - 1) |-> {}]]
    /\ row' = Some(0)
    /\ UNCHANGED <<asm_distances, asm_r>>
    /\ UNCHANGED gpVars
    /\ UNCHANGED moeVars

\* lines 258-261: the turn of the loop for distance row `row`
AssembleRow ==
    /\ row # None
    /\ row[1] < Len(asm_distances.d_indices)
    /\ LET ij == asm_distances.d_indices[row[1] + 1]
       IN  /\ r_mx' = WritePair(r_mx, ij, asm_r[row[1] + 1])
           /\ writers' = [a \in DOMAIN writers |-> [b \in DOMAIN writers[a] |->
                            IF <<a, b>> \in WrittenBy(ij)
                            THEN writers[a][b] \cup {row[1]}
                            ELSE writers[a][b]]]
    /\ row' = Some(row[1] + 1)
    /\ UNCHANGED <<asm_distances, asm_r>>
    /\ UNCHANGED gpVars
    /\ UNCHANGED moeVars

\* ------------------------------------------------------- specifications
\* no correlation matrix is being assembled
CorrIdle ==
    /\ asm_distances = DistanceMatrixNew(0)
    /\ asm_r = <<>>
    /\ r_mx = NoMatrix
    /\ row = None
    /\ writers = NoMatrix

\* the mixture builder is not in use while a GP is trained or queried
MoeIdle ==
    /\ params = GpMixtureValidParamsDefault
    /\ lastOp = NoOp
    /\ checked = NoCheck
    /\ nCalls = 0

\* The trainer: a GpHyperParams built by new(mean), its setters, then fit.
Init ==
    /\ pc = "params"
    /\ \E mean \in Means : hp = HyperParamsNew(mean)
    /\ env = NoEnv
    /\ index = 0
    /\ cstr = <<>>
    /\ theta_vec = <<>>
    /\ nEval = 0
    /\ res = "none"
    /\ lastRL = NoCall
    /\ gp = NoGp
    /\ pred = NoPred
    /\ MoeIdle
    /\ CorrIdle

Next ==
    \/ \E theta \in ThetaInits : with_initial_theta(theta)
    \/ \E mean \in Means : with_mean(mean)
    \/ \E n \in 1..MaxObs, d \in 1..MaxDim, k \in 1..MaxOut, ystd \in YStds,
          byRef \in BOOLEAN :
          FitBegin(n, d, k, ystd, byRef)
    \/ AddConstraints
    \/ StartOptimize
    \/ \E x \in [1..Len(env.theta0) -> LogGrid], lib \in LibOutcomes, keep \in BOOLEAN :
          ObjEval(x, lib, keep)
    \/ \E r \in {"Ok", "Err"} : OptimizeReturn(r)
    \/ \E lib \in LibOutcomes : FitFinish(lib)

Spec == Init /\ [][Next]_vars

\* The predictor: a GaussianProcess as fit returns it, then any calls of
\* predict_values and predict_variances.  The GP is the one fit builds from a
\* successful final evaluation (FitFinish) at the starting theta.
TrainedGps ==
    LET runs == [mean : Means, n : 1..MaxObs, d : 1..MaxDim, k : 1..MaxOut,
                 ystd : YStds, lib : LibOutcomes]
        e(r) == FitEnv(HyperParamsNew(r.mean), r.n, r.d, r.k, r.ystd, TRUE)
        out(r) == reduced_likelihood(e(r).theta0, e(r).fx, e(r).x_distances,
                                     e(r).ytrain, r.lib)
    IN  { MakeGp(HyperParamsNew(r.mean), e(r), e(r).theta0, out(r).inner) :
          r \in { q \in runs : out(q).tag = "Ok" } }

InitPredict ==
    /\ pc = "trained"
    /\ gp \in TrainedGps
    /\ hp = NoHyperParams
    /\ env = NoEnv
    /\ index = 0
    /\ cstr = <<>>
    /\ theta_vec = <<>>
    /\ nEval = 0
    /\ res = "none"
    /\ lastRL = NoCall
    /\ pred = NoPred
    /\ MoeIdle
    /\ CorrIdle

NextPredict ==
    \/ \E x \in Queries, coBroadcast \in BOOLEAN : PredictValues(x, coBroadcast)
    \/ \E x \in Queries, lib \in PredLibs : PredictVariances(x, lib)

SpecPredict == InitPredict /\ [][NextPredict]_vars

\* The builder: one of the constructors, then any setters, with_rng and check.
GpIdle ==
    /\ pc = "params"
    /\ hp = NoHyperParams
    /\ env = NoEnv
    /\ index = 0
    /\ cstr = <<>>
    /\ theta_vec = <<>>
    /\ nEval = 0
    /\ res = "none"
    /\ lastRL = NoCall
    /\ gp = NoGp
    /\ pred = NoPred

InitMoe ==
    /\ GpIdle
    /\ CorrIdle
    /\ checked = NoCheck
    /\ nCalls = 0
    /\ \/ /\ params = new
          /\ lastOp = Called("new", <<>>, NoOp.self)
       \/ \E g \in GpTypes, r \in Rngs :
             /\ params = new_with_rng(g, r)
             /\ lastOp = Called("new_with_rng", <<g, r>>, NoOp.self)
       \/ /\ params = GpMixtureParamsDefault
          /\ lastOp = Called("default", <<>>, NoOp.self)
       \/ /\ params = from(GpMixtureValidParamsDefault)
          /\ lastOp = Called("GpMixtureValidParams::default", <<>>, NoOp.self)

NextMoe ==
    \/ \E v \in GpTypes : Call_gp_type(v)
    \/ \E v \in NClusters : Call_n_clusters(v)
    \/ \E v \in Recombinations : Call_recombination(v)
    \/ \E v \in RegressionSpecs : Call_regression_spec(v)
    \/ \E v \in CorrelationSpecs : Call_correlation_spec(v)
    \/ \E v \in ThetaVecs : Call_theta_init(v)
    \/ \E v \in KplsDims : Call_kpls_dim(v)
    \/ \E v \in ThetaBounds : Call_theta_bounds(v)
    \/ \E v \in ThetaTunings : Call_theta_tuning(v)
    \/ \E v \in NStarts : Call_n_start(v)
    \/ \E v \in Gmms : Call_gmm(v)
    \/ \E v \in GmxData : Call_gmx(v)
    \/ \E r \in Rngs : Call_with_rng(r)
    \/ Call_check

SpecMoe == InitMoe /\ [][NextMoe]_vars

\* The assembly of the correlation matrix in reduced_likelihood, for the
\* distance matrix of n training points and any kernel column.
InitCorr ==
    /\ GpIdle
    /\ MoeIdle
    /\ \E n \in 1..MaxPoints :
          /\ asm_distances = DistanceMatrixNew(n)
          /\ asm_r \in [1..Len(DistanceMatrixNew(n).d_indices) -> KernelValues]
    /\ r_mx = NoMatrix
    /\ row = None
    /\ writers = NoMatrix

NextCorr ==
    \/ AssembleBegin
    \/ AssembleRow

SpecCorr == InitCorr /\ [][NextCorr]_vars

\* ------------------------------------------------------------- claims
\* C1: every element predict_variances returns is >= 0: a value
\* sigma2 * (1 - colSumSq(rt) + colSumSq(u)) that is negative is returned as 0,
\* any other value is returned unchanged, one element per query row.
ClaimC1 ==
    (pred.op = "predict_variances" /\ pred.tag = "Ok") =>
        /\ Len(pred.value) = pred.x.rows
        /\ \A j \in 1..Len(pred.value) :
              /\ pred.value[j] >= 0
              /\ pred.value[j] = IF pred.mse[j] < 0 THEN 0 ELSE pred.mse[j]

\* a call that computed a negative variance and one that computed a positive one
WitnessC1 ==
    /\ pred.op = "predict_variances"
    /\ pred.tag = "Ok"
    /\ Len(pred.value) = 2
    /\ pred.mse[1] < 0
    /\ pred.value[1] = 0
    /\ gp.inner_params.sigma2[1] > 0

\* C2: every failing reduced_likelihood evaluation made for the optimizer is
\* handed back to it as +infinity, and none aborts fit.
ClaimC2 ==
    (lastRL.from = "objfn" /\ lastRL.out.tag # "Ok") =>
        /\ lastRL.ret = Some(INFINITY)
        /\ pc = "optim"

\* C3: once the constraints are registered there is, for every component j of
\* log10(theta), one lower-bound and one upper-bound constraint reading
\* component j, and the theta of the GP fit returns lies in [1e-6, 1e2].
ConstraintOn(kind, j) ==
    Cardinality({ c \in 1..Len(cstr) :
                    cstr[c].kind = kind /\ ReadIndex(cstr[c]) = j }) = 1

ClaimC3 ==
    /\ pc \in {"optim", "optdone", "trained", "failed"} =>
          \A j \in 0..(Len(env.theta0) - 1) :
              ConstraintOn("low", j) /\ ConstraintOn("up", j)
    /\ pc = "trained" =>
          \A j \in 1..Len(gp.theta) :
              /\ RatLeq(powf(-LogLow), gp.theta[j])
              /\ RatLeq(gp.theta[j], powf(LogUp))

\* C4: the GP fit returns holds the theta the optimizer ended on and the inner
\* parameters of one final evaluation at that theta, on the basis matrix and
\* outputs of the optimization; when that final evaluation fails, fit returns
\* an error.
ClaimC4 ==
    /\ pc = "trained" =>
          /\ lastRL.from = "final"
          /\ lastRL.out.tag = "Ok"
          /\ gp.theta = MapPowf(theta_vec)
          /\ gp.inner_params = lastRL.out.inner
          /\ gp.inner_params.theta = gp.theta
          /\ gp.inner_params.fx = env.fx
          /\ gp.inner_params.y = env.ytrain
    /\ (lastRL.from = "final" /\ lastRL.out.tag # "Ok") => pc = "failed"

\* C5: a record check returns holds n_clusters >= 1, n_start >= 1, kpls_dim
\* None or > 0 and a smooth heaviness >= 0, and check rejects a builder that
\* holds a value out of these ranges with an invalid-value error.
InRange(v) ==
    /\ v.n_clusters >= 1
    /\ v.n_start >= 1
    /\ v.kpls_dim = None \/ v.kpls_dim[1] > 0
    /\ (v.recombination.tag = "Smooth" /\ v.recombination.heaviness # None)
          => v.recombination.heaviness[1] >= 0

ClaimC5 ==
    lastOp.op = "check" =>
        /\ checked.tag = "Ok" => InRange(checked.value)
        /\ ~InRange(lastOp.self) =>
              (checked.tag = "Err" /\ checked.kind = "InvalidValueError")

\* C6: predict_values and predict_variances, given a query whose number of
\* columns differs from that of the training inputs, return an invalid-input
\* error: they neither panic nor return a prediction.
ClaimC6 ==
    (pred.op \in {"predict_values", "predict_variances"}
        /\ pred.x.cols # gp.xtrain.cols) => pred.tag = "Err"

\* C7 (as stated): an object built by any constructor and no setter has
\* n_clusters 1, n_start 10, the constant regression and the squared
\* exponential correlation spec, no kpls_dim, the full GP type and no mixture.
Constructors == {"new", "new_with_rng", "default", "GpMixtureValidParams::default"}

DefaultOptions(v) ==
    /\ v.n_clusters = 1
    /\ v.n_start = 10
    /\ v.regression_spec = {"CONSTANT"}
    /\ v.correlation_spec = {"SQUAREDEXPONENTIAL"}
    /\ v.kpls_dim = None
    /\ v.gmm = None
    /\ v.gmx = None

ClaimC7Original ==
    lastOp.op \in Constructors => (DefaultOptions(params) /\ params.gp_type = "FullGp")

\* C7 (amended): as above, but the GP type is the full one for new, default
\* and GpMixtureValidParams::default, and the gp_type argument for new_with_rng.
ClaimC7 ==
    /\ (nCalls = 0 /\ lastOp.op # "none") => DefaultOptions(params)
    /\ lastOp.op \in Constructors =>
          params.gp_type = IF lastOp.op = "new_with_rng" THEN lastOp.arg[1]
                                                         ELSE "FullGp"

WitnessC7 ==
    /\ lastOp.op = "new_with_rng"
    /\ lastOp.arg[1] = "SparseGp"
    /\ nCalls = 0
    /\ params.n_start = 10

\* C8: theta_bounds(b) on a Fixed tuning returns the builder unchanged, on an
\* Optimized one it replaces the bounds by b and keeps init; theta_init(t)
\* keeps the variant: on Optimized it replaces init and keeps the bounds, on
\* Fixed it replaces the fixed value; no other field changes.
ClaimC8 ==
    LET s == lastOp.self.theta_tuning
        t == params.theta_tuning
    IN  /\ lastOp.op = "theta_bounds" =>
              /\ s.tag = "Fixed" => params = lastOp.self
              /\ s.tag = "Optimized" =>
                    /\ t = Optimized(s.init, lastOp.arg)
                    /\ params = [lastOp.self EXCEPT !.theta_tuning = t]
        /\ lastOp.op = "theta_init" =>
              /\ t.tag = s.tag
              /\ t.init = lastOp.arg
              /\ t.bounds = s.bounds
              /\ params = [lastOp.self EXCEPT !.theta_tuning = t]

WitnessC8 ==
    /\ lastOp.op = "theta_bounds"
    /\ lastOp.self.theta_tuning.tag = "Fixed"
    /\ params.theta_tuning = Fixed(<<1>>)

\* C9: in reduced_likelihood, a ratio sigma_min/sigma_max of R_f below 1e-10
\* gives an error of kind LikelihoodIncompatibleBasis when cond(F) > 1e15 and
\* of the distinct kind LikelihoodIllConditioned otherwise; a ratio >= 1e-10
\* gives neither.
ClaimC9 ==
    (lastRL.from # "none" /\ lastRL.lib.chol /\ lastRL.lib.solveFt
        /\ lastRL.lib.qr /\ lastRL.lib.svdR) =>
        LET len == Min(env.fx.rows, env.fx.cols)
            low == RIllConditioned(SingularValues(len, lastRL.lib.svMin))
            bad == FIllConditioned(SingularValues(len, lastRL.lib.sfMin))
            kinds == {"LikelihoodIncompatibleBasis", "LikelihoodIllConditioned"}
        IN  /\ low => /\ lastRL.out.tag = "Err"
                      /\ lastRL.out.kind = IF bad THEN "LikelihoodIncompatibleBasis"
                                                  ELSE "LikelihoodIllConditioned"
            /\ ~low => ~(lastRL.out.tag = "Err" /\ lastRL.out.kind \in kinds)

\* C10: the basis predict_variances evaluates at the query is the one of the
\* GP's mean model, so the two operands of lhs have the same shape (p, m).
ClaimC10 ==
    (pred.op = "predict_variances" /\ pred.lhs # Shape(0, 0)) =>
        /\ pred.fx = MeanEval(gp.mean, pred.x)
        /\ pred.lhs = Shape(pred.fx.cols, pred.fx.rows)

\* C11: the correlation matrix reduced_likelihood has assembled is symmetric,
\* every diagonal entry is 1 + 10 * EPSILON, and every off-diagonal entry
\* (a, b) was written once, from the distance row of the pair {a, b}, and
\* holds the kernel value of that row.
Assembled == row = Some(Len(asm_distances.d_indices))

RowOfPair(a, b) ==
    CHOOSE k \in 1..Len(asm_distances.d_indices) :
        asm_distances.d_indices[k] = IF a < b THEN <<a, b>> ELSE <<b, a>>

ClaimC11 ==
    Assembled =>
        \A a \in 0..(asm_distances.n_obs - 1), b \in 0..(asm_distances.n_obs - 1) :
            /\ r_mx[a][b] = r_mx[b][a]
            /\ a = b => /\ r_mx[a][b] = Num(1000, 10)
                        /\ writers[a][b] = {}
            /\ a # b => /\ writers[a][b] = {RowOfPair(a, b) - 1}
                        /\ r_mx[a][b] = asm_r[RowOfPair(a, b)]

WitnessC11 ==
    /\ Assembled
    /\ asm_distances.n_obs = 3
    /\ asm_r[1] # asm_r[2] /\ asm_r[2] # asm_r[3] /\ asm_r[1] # asm_r[3]
    /\ r_mx[2][0] = asm_r[2]

\* the fields of a builder other than its random number generator
ConfigFields == {"gp_type", "n_clusters", "recombination", "regression_spec",
                 "correlation_spec", "theta_tuning", "kpls_dim", "n_start",
                 "gmm", "gmx"}

SameConfiguration(a, b) == \A f \in ConfigFields : a[f] = b[f]

\* C12: the builder with_rng returns has the same gp_type, n_clusters,
\* recombination, regression_spec, correlation_spec, theta_tuning, kpls_dim,
\* n_start, gmm and gmx as the builder it was called on.
ClaimC12 ==
    lastOp.op = "with_rng" => SameConfiguration(params, lastOp.self)

\* C13: the builder GpMixtureParams::default() returns equals the one
\* GpMixtureParams::new() returns in every field other than the generator.
ClaimC13 ==
    (lastOp.op = "default" /\ nCalls = 0) => SameConfiguration(params, new)

\* the setters of GpMixtureParams, the arguments a client passes to each (gmx
\* with sound data, the call that returns), and the call itself
SetterNames == {"gp_type", "n_clusters", "recombination", "regression_spec",
                "correlation_spec", "kpls_dim", "n_start", "theta_init",
                "theta_bounds", "theta_tuning", "gmm", "gmx"}

SetterArgs(op) ==
    CASE op = "gp_type" -> GpTypes
      [] op = "n_clusters" -> NClusters
      [] op = "recombination" -> Recombinations
      [] op = "regression_spec" -> RegressionSpecs
      [] op = "correlation_spec" -> CorrelationSpecs
      [] op = "kpls_dim" -> KplsDims
      [] op = "n_start" -> NStarts
      [] op = "theta_init" -> ThetaVecs
      [] op = "theta_bounds" -> ThetaBounds
      [] op = "theta_tuning" -> ThetaTunings
      [] op = "gmm" -> Gmms
      [] op = "gmx" -> GmxData \ {"unsound"}

Apply(op, v, self) ==
    CASE op = "gp_type" -> gp_type(self, v)
      [] op = "n_clusters" -> n_clusters(self, v)
      [] op = "recombination" -> recombination(self, v)
      [] op = "regression_spec" -> regression_spec(self, v)
      [] op = "correlation_spec" -> correlation_spec(self, v)
      [] op = "kpls_dim" -> kpls_dim(self, v)
      [] op = "n_start" -> n_start(self, v)
      [] op = "theta_init" -> theta_init(self, v)
      [] op = "theta_bounds" -> theta_bounds(self, v)
      [] op = "theta_tuning" -> theta_tuning(self, v)
      [] op = "gmm" -> gmm(self, v)
      [] op = "gmx" -> gmx(self, v)

\* the field of GpMixtureValidParams a setter assigns
TargetField(op) ==
    IF op \in {"theta_init", "theta_bounds", "theta_tuning"} THEN "theta_tuning" ELSE op

\* the last call was a setter that returned
SetterReturned == lastOp.op \in SetterNames /\ lastOp.result = "Ok"

\* the setter call (g, w) commutes with the last call, made on lastOp.self
CommutesWithLast(g, w) ==
    Apply(g, w, params) = Apply(lastOp.op, lastOp.arg, Apply(g, w, lastOp.self))

\* the last call changed no field but the one its setter assigns
FrameOfLast ==
    \A f \in (ConfigFields \cup {"rng"}) \ {TargetField(lastOp.op)} :
        params[f] = lastOp.self[f]

\* calling the same setter again makes the last call forgotten
LastCallWins ==
    \A w \in SetterArgs(lastOp.op) :
        Apply(lastOp.op, w, params) = Apply(lastOp.op, w, lastOp.self)

\* C14 as stated: each of the twelve setters changes only the field it names,
\* any two different setters commute, and the last call of a setter wins.
ClaimC14Original ==
    SetterReturned =>
        /\ FrameOfLast
        /\ \A g \in SetterNames \ {lastOp.op} : \A w \in SetterArgs(g) :
               CommutesWithLast(g, w)
        /\ LastCallWins

\* C14: a setter call that returns changes only the field of the parameters
\* its setter assigns (theta_tuning for theta_init, theta_bounds and
\* theta_tuning); it commutes with every setter assigning another field, and
\* theta_init commutes with theta_bounds; the last call of a setter wins.
ClaimC14 ==
    SetterReturned =>
        /\ FrameOfLast
        /\ \A g \in SetterNames : \A w \in SetterArgs(g) :
               (\/ TargetField(g) # TargetField(lastOp.op)
                \/ {g, lastOp.op} = {"theta_init", "theta_bounds"})
                   => CommutesWithLast(g, w)
        /\ LastCallWins

WitnessC14 ==
    /\ SetterReturned
    /\ nCalls = 2
    /\ lastOp.op = "theta_init"
    /\ lastOp.self.theta_tuning.bounds \in ThetaBounds
    /\ params.theta_tuning = Optimized(lastOp.arg, lastOp.self.theta_tuning.bounds)

\* C15: when optimize returned an error, fit goes on to the final evaluation
\* at the theta the optimizer left, and it returns Ok(gp) with that theta when
\* the evaluation succeeds and Err when it does not.
ClaimC15 ==
    (res = "Err" /\ pc \in {"trained", "failed", "panicked"}) =>
        /\ lastRL.from = "final"
        /\ lastRL.out.tag = "Ok" => (pc = "trained" /\ gp.theta = MapPowf(theta_vec))
        /\ lastRL.out.tag # "Ok" => pc = "failed"

====
